---- MODULE Spec2Model ----
(***************************************************************************)
(* Model of ppt-gen.py: the pattern store, the Mermaid diagram generator   *)
(* and renderer, the speech synthesizer and the video orchestrator.        *)
(*                                                                         *)
(* Text is a sequence of tokens (short strings); the string operations of  *)
(* the source (strip, split, replace, startswith, in, count) are the       *)
(* operators below, computed on token sequences.  Durations are integer    *)
(* milliseconds (len(audio) of pydub), so 5.0 seconds is 5000.             *)
(***************************************************************************)
EXTENDS Integers, Sequences, FiniteSets, TLC

VARIABLES
    store_file,     \* content of LEARNING_FILE (mermaid_patterns.pkl)
    now,            \* value of datetime.now()
    st_prev,        \* store file as it was before the latest record call
    st_call,        \* the latest save_successful_pattern call and its outcome
    rec_succ,       \* every record appended with success=True, in call order
    rec_fail        \* every record appended with success=False, in call order

storeVars == <<store_file, now, st_prev, st_call, rec_succ, rec_fail>>

VARIABLES
    vl_resp,        \* validate_mermaid_syntax: outcome of its GET request
    vl_result       \* validate_mermaid_syntax: how the call ended

validateVars == <<vl_resp, vl_result>>

VARIABLES
    charts,         \* files chart_NN.png of charts_dir, by slide index
    rn_menu,        \* the outcomes the GET requests of this call can have
    rn_pc,          \* render_mermaid_to_image: position
    rn_code,        \* render_mermaid_to_image: mermaid_code
    rn_path,        \* render_mermaid_to_image: slide index of output_path
    rn_attempt,     \* render_mermaid_to_image: loop variable attempt
    rn_file0,       \* the file at output_path when the call began
    rn_hist         \* the responses of the attempts made, in order

renderVars == <<charts, rn_menu, rn_pc, rn_code, rn_path, rn_attempt, rn_file0, rn_hist>>

VARIABLES
    audio,          \* files slide_NN.mp3 of audio_dir, by slide index
    sp_menu,        \* the outcomes the POST request of this call can have
    sp_pc,          \* generate_speech_elevenlabs: position
    sp_path,        \* generate_speech_elevenlabs: slide index of output_path
    sp_resp,        \* generate_speech_elevenlabs: outcome of its POST request
    sp_result,      \* generate_speech_elevenlabs: returned duration, ms
    sp_file0        \* the file at output_path when the call began

speechVars == <<audio, sp_menu, sp_pc, sp_path, sp_resp, sp_result, sp_file0>>

VARIABLES
    fs_log,         \* the writes of chart, audio and slide files, in order
    env_fault       \* some external call failed or gave an unusable answer

envVars == <<fs_log, env_fault>>

VARIABLES
    llm_menu,       \* the outcomes of the chat-completion calls of this call
    vl_menu,        \* the responses to the confirmation requests of this call
    gm_pc,          \* generate_mermaid_chart: position
    gm_slide,       \* generate_mermaid_chart: slide_data
    gm_attempt,     \* generate_mermaid_chart: loop variable attempt
    gm_prompt,      \* generate_mermaid_chart: prompt
    gm_result,      \* generate_mermaid_chart: returned mermaid_code
    gm_calls,       \* chat-completion calls made by the current call
    gm_nconf,       \* attempts of the current call that passed every check
    gm_last         \* the latest attempt: its cleaned text and how it ended

chartVars == <<llm_menu, vl_menu, gm_pc, gm_slide, gm_attempt, gm_prompt, gm_result,
               gm_calls, gm_nconf, gm_last>>

VARIABLES
    vp_pc,              \* generate_video_presentation: position
    topic,              \* topic, a sequence of characters
    output_filename,    \* output_filename; given is FALSE while it is None
    slides_data,        \* the parsed outline
    vp_idx,             \* idx of the slide being processed
    mermaid_image_path, \* slide index of the chart path, 0 for None
    duration,           \* duration returned for the current slide, ms
    slide_images,       \* files slide_NN.png of slides_dir, by slide index
    video_clips,        \* video_clips
    final_video,        \* the file written by write_videofile
    vp_nodiag,          \* slides whose diagram step ended in the except clause
    sp_returns          \* the durations returned by the speech calls, in order

videoVars == <<vp_pc, topic, output_filename, slides_data, vp_idx,
               mermaid_image_path, duration, slide_images, video_clips,
               final_video, vp_nodiag, sp_returns>>

VARIABLES
    wr_pc,          \* the word wrap of one bullet: "idle", "ready" or "done"
    wr_words,       \* bullet.split(), each word given by its rendered width
    wr_lines,       \* lines, each line the words joined into it
    cs_pc,          \* a call of create_slide_image: "idle", "ready" or "done"
    cs_slide,       \* slide_data
    cs_path,        \* mermaid_image_path, 0 for None
    cs_size,        \* width and height of the image at that path
    cs_image,       \* the image saved at output_path
    cs_pasted       \* width and height of the pasted diagram, <<0, 0>> for none

slideVars == <<wr_pc, wr_words, wr_lines, cs_pc, cs_slide, cs_path, cs_size,
               cs_image, cs_pasted>>

VARIABLES
    rc_writers,     \* the pipeline instances that share the store file
    rc_pc,          \* where each is in save_successful_pattern: "idle",
                    \* "loaded" (data built) or "open" (file opened with 'wb')
    rc_arg,         \* the pattern and flag of each one's call in progress
    rc_data,        \* the file content each is about to dump
    rc_calls,       \* the number of calls each has completed
    rc_done,        \* the patterns and flags of the completed calls
    rc_overlap      \* a call has started while another was in progress

raceVars == <<rc_writers, rc_pc, rc_arg, rc_data, rc_calls, rc_done, rc_overlap>>

vars == <<storeVars, validateVars, renderVars, speechVars, chartVars, envVars,
          videoVars, slideVars, raceVars>>

(***************************************************************************)
(* Bounds of the model.                                                    *)
(***************************************************************************)
MaxClock == 1       \* ticks of the wall clock
MaxSaves == 3       \* record calls in the store specification
MaxSucc  == 52      \* successful records in the cap specification
MaxFail  == 22      \* failed records in the cap specification
MaxSlides == 3      \* slides of an outline
MaxWords == 3       \* words of a bullet in the word-wrap specification
MaxTopic == 2       \* characters of a short topic in the filename specification
MaxRaceCalls == 2   \* record calls of each pipeline instance sharing the store

(***************************************************************************)
(* Python string operations on token sequences.                            *)
(***************************************************************************)
IsSpace(t) == t \in {" ", "\n"}

\* s[i:] and s[:i] (0-based i as in Python, 0 <= i <= len)
From(s, i) == SubSeq(s, i + 1, Len(s))
Upto(s, i) == SubSeq(s, 1, i)

\* s[-n:]
LastN(s, n) == IF Len(s) <= n THEN s ELSE SubSeq(s, Len(s) - n + 1, Len(s))

\* s[:n], the slice a wrong truncation would take
FirstN(s, n) == IF Len(s) <= n THEN s ELSE SubSeq(s, 1, n)

RECURSIVE LStrip(_)
LStrip(s) == IF s # <<>> /\ IsSpace(Head(s)) THEN LStrip(Tail(s)) ELSE s

RECURSIVE RStrip(_)
RStrip(s) ==
    IF s # <<>> /\ IsSpace(s[Len(s)]) THEN RStrip(Upto(s, Len(s) - 1)) ELSE s

\* str.strip()
Strip(s) == RStrip(LStrip(s))

\* s.startswith(p)
StartsWith(s, p) == Len(s) >= Len(p) /\ Upto(s, Len(p)) = p

\* s.find(p): least 1-based position where p occurs in s, 0 when none
Find(s, p) ==
    LET hits == {i \in 1..(Len(s) - Len(p) + 1) : SubSeq(s, i, i + Len(p) - 1) = p}
    IN  IF hits = {} THEN 0 ELSE CHOOSE i \in hits : \A j \in hits : i <= j

\* p in s
Contains(s, p) == Find(s, p) # 0

\* s.count(p), non-overlapping occurrences from the left
RECURSIVE Count(_, _)
Count(s, p) ==
    LET i == Find(s, p)
    IN  IF i = 0 THEN 0 ELSE 1 + Count(From(s, i - 1 + Len(p)), p)

\* s.split(p): the parts between occurrences of p
RECURSIVE Split(_, _)
Split(s, p) ==
    LET i == Find(s, p)
    IN  IF i = 0 THEN <<s>>
        ELSE <<Upto(s, i - 1)>> \o Split(From(s, i - 1 + Len(p)), p)

\* s.replace(p, "")
RECURSIVE Remove(_, _)
Remove(s, p) ==
    LET i == Find(s, p)
    IN  IF i = 0 THEN s
        ELSE Upto(s, i - 1) \o Remove(From(s, i - 1 + Len(p)), p)

RECURSIVE Flatten(_, _)
\* sep.join(parts)
Flatten(parts, sep) ==
    IF parts = <<>> THEN <<>>
    ELSE IF Len(parts) = 1 THEN parts[1]
    ELSE parts[1] \o sep \o Flatten(Tail(parts), sep)

(***************************************************************************)
(* Pattern store: load_successful_patterns, save_successful_pattern.       *)
(* The file is absent, empty, corrupt (bytes pickle cannot decode) or the  *)
(* pickle of a store structure.                                            *)
(***************************************************************************)
SuccessCap == 50
FailCap    == 20

EmptyStore == [successful_patterns |-> <<>>, failed_patterns |-> <<>>]

AbsentFile  == [kind |-> "absent",  data |-> EmptyStore]
EmptyFile   == [kind |-> "empty",   data |-> EmptyStore]
CorruptFile == [kind |-> "corrupt", data |-> EmptyStore]
PickleFile(d) == [kind |-> "pickle", data |-> d]

\* os.path.exists(LEARNING_FILE)
StoreExists(file) == file.kind # "absent"

\* pickle.load(f): raises on an empty or undecodable file
pickle_load(file) ==
    [raised |-> file.kind \in {"empty", "corrupt"}, value |-> file.data]

\* load without the try/except around pickle.load
load_uncaught(file) ==
    IF StoreExists(file) THEN pickle_load(file)
    ELSE [raised |-> FALSE, value |-> EmptyStore]

load_successful_patterns(file) ==
    IF StoreExists(file) /\ ~pickle_load(file).raised
    THEN [raised |-> FALSE, value |-> pickle_load(file).value]
    ELSE [raised |-> FALSE, value |-> EmptyStore]

PatternRecord(pattern, ts) == [pattern |-> pattern, timestamp |-> ts]

\* no record call made yet
NoCall == [called |-> FALSE, pattern |-> <<>>, success |-> FALSE, ts |-> 0,
           raised |-> FALSE]

\* the record call keeping the oldest entries instead of the newest
save_keep_oldest(file, pattern, success, ts) ==
    LET ld   == load_successful_patterns(file)
        data == ld.value
    IN  IF ld.raised THEN [raised |-> TRUE, file |-> file]
        ELSE IF success
        THEN [raised |-> FALSE,
              file |-> PickleFile([data EXCEPT !.successful_patterns =
                  FirstN(Append(@, PatternRecord(pattern, ts)), SuccessCap)])]
        ELSE [raised |-> FALSE,
              file |-> PickleFile([data EXCEPT !.failed_patterns =
                  FirstN(Append(@, PatternRecord(pattern, ts)), FailCap)])]

\* the record call with the success flag inverted
save_wrong_list(file, pattern, success, ts) ==
    LET ld   == load_successful_patterns(file)
        data == ld.value
    IN  IF ld.raised THEN [raised |-> TRUE, file |-> file]
        ELSE IF ~success
        THEN [raised |-> FALSE,
              file |-> PickleFile([data EXCEPT !.successful_patterns =
                  LastN(Append(@, PatternRecord(pattern, ts)), SuccessCap)])]
        ELSE [raised |-> FALSE,
              file |-> PickleFile([data EXCEPT !.failed_patterns =
                  LastN(Append(@, PatternRecord(pattern, ts)), FailCap)])]

\* save_successful_pattern(pattern, success): read, append, truncate, write
save_successful_pattern(file, pattern, success, ts) ==
    LET ld   == load_successful_patterns(file)
        data == ld.value
    IN  IF ld.raised THEN [raised |-> TRUE, file |-> file]
        ELSE IF success
        THEN [raised |-> FALSE,
              file |-> PickleFile([data EXCEPT !.successful_patterns =
                  LastN(Append(@, PatternRecord(pattern, ts)), SuccessCap)])]
        ELSE [raised |-> FALSE,
              file |-> PickleFile([data EXCEPT !.failed_patterns =
                  LastN(Append(@, PatternRecord(pattern, ts)), FailCap)])]

(***************************************************************************)
(* Diagram texts the language model can answer with.                       *)
(***************************************************************************)
NL == <<"\n">>

InitLine  == <<"%%{init:", "{'theme':'forest'}", "}%%">>
GraphTD   == <<"graph", " ", "TD">>
GraphLR   == <<"graph", " ", "LR">>
Edge(a, b) == <<a, "-->", b>>
LabelEdge(a, b) == <<" ", a, "[", "Start", "]", " ", "-->", " ", b>>
QuoteEdge(a, b) == <<" ", a, "[", "\"", "Start", "\"", "]", " ", "-->", " ", b>>

FourEdges == <<LabelEdge("A", "B"), Edge("A", "C"), Edge("B", "D"), Edge("C", "D")>>

GoodChart    == Flatten(<<InitLine, GraphTD>> \o FourEdges, NL)
GoodChartLR  == Flatten(<<InitLine, GraphLR>> \o FourEdges, NL)
NoInitChart  == Flatten(<<GraphTD>> \o FourEdges, NL)
OneLineChart == InitLine
BadGraphChart == Flatten(<<InitLine, <<"flowchart", " ", "TD">>>> \o FourEdges, NL)
ThreeArrowChart == Flatten(<<InitLine, GraphTD>> \o Upto(FourEdges, 3), NL)
QuoteChart   == Flatten(<<InitLine, GraphTD, QuoteEdge("A", "B"), Edge("A", "C"),
                          Edge("B", "D"), Edge("C", "D")>>, NL)
\* a text that passes the four checks of lines 180-202 with another theme, a
\* long node name, two arrows on a line and a quote at the end of a label
DarkInitLine == <<"%%{init:", "{'theme':'dark'}", "}%%">>
LooseChart   == Flatten(<<DarkInitLine, GraphTD,
                          <<"A", "[", "Start", "\"", "]", "-->", "Node1">>,
                          <<"Node1", "-->", "C", "-->", "D">>, Edge("C", "D")>>, NL)
\* the token FENCE stands for the three-backquote code fence of markdown
Fence == <<"FENCE">>
FenceMermaid == <<"FENCE", "mermaid">>
FencedChart  == FenceMermaid \o NL \o GoodChart \o NL \o Fence
PlainFencedChart == Fence \o NL \o GoodChart \o NL \o Fence \o NL

(***************************************************************************)
(* HTTP: a request raises (timeout, connection error) or gives a response  *)
(* with a status, a content-type header (<<>> when the header is missing)  *)
(* and a body.                                                             *)
(***************************************************************************)
HttpStatuses == {200, 201, 404, 500}

ContentTypes == {<<"image", "/", "png">>, <<"text", "/", "html">>, <<>>,
                 <<"IMAGE", "/", "PNG">>, <<"application", "/", "x-", "image">>}

\* a body of the diagram service: size is len(response.content), image
\* tells whether PIL can open the bytes
ImageBodies ==
    [data : {"png1", "png2"}, size : {0, 500, 1000, 1001, 2000}, image : BOOLEAN]

NoBody == [data |-> "none", size |-> 0, image |-> FALSE]

RaisedResponse == [exc |-> TRUE, status |-> 0, ctype |-> <<>>, body |-> NoBody]

HttpResponse(st, ct, b) == [exc |-> FALSE, status |-> st, ctype |-> ct, body |-> b]

ImageResponses ==
    {RaisedResponse} \cup
    {HttpResponse(st, ct, b) : st \in HttpStatuses, ct \in ContentTypes, b \in ImageBodies}

\* the responses the render loop and the confirmation are driven with
PngOk == HttpResponse(200, <<"image", "/", "png">>,
                      [data |-> "png1", size |-> 2000, image |-> TRUE])
RenderResponses ==
    {RaisedResponse, PngOk,
     HttpResponse(200, <<"image", "/", "png">>, [data |-> "png2", size |-> 500, image |-> FALSE]),
     HttpResponse(200, <<"text", "/", "html">>, [data |-> "png2", size |-> 2000, image |-> FALSE]),
     HttpResponse(404, <<"image", "/", "png">>, [data |-> "png2", size |-> 2000, image |-> TRUE]),
     HttpResponse(500, <<>>, [data |-> "png1", size |-> 0, image |-> FALSE])}

AbsentPath == [exists |-> FALSE, body |-> NoBody]
FileOf(b) == [exists |-> TRUE, body |-> b]
StaleChart == FileOf([data |-> "old", size |-> 2000, image |-> TRUE])

(***************************************************************************)
(* validate_mermaid_syntax                                                 *)
(***************************************************************************)
MinImageBytes == 1000

NoResult == [done |-> FALSE, raised |-> FALSE, value |-> FALSE]

\* 'image' in content_type
IsImageType(ct) == Contains(ct, <<"image">>)

\* the confirmation accepting a payload of exactly 1000 bytes
validate_at_least(resp) ==
    IF resp.exc THEN [done |-> TRUE, raised |-> FALSE, value |-> FALSE]
    ELSE IF resp.status = 200
    THEN [done |-> TRUE, raised |-> FALSE,
          value |-> IsImageType(resp.ctype) /\ resp.body.size >= MinImageBytes]
    ELSE [done |-> TRUE, raised |-> FALSE, value |-> FALSE]

\* validate_mermaid_syntax(mermaid_code), given the outcome of its request
validate_mermaid_syntax(resp) ==
    IF resp.exc THEN [done |-> TRUE, raised |-> FALSE, value |-> FALSE]
    ELSE IF resp.status = 200
    THEN [done |-> TRUE, raised |-> FALSE,
          value |-> IsImageType(resp.ctype) /\ resp.body.size > MinImageBytes]
    ELSE [done |-> TRUE, raised |-> FALSE, value |-> FALSE]

InitValidate ==
    /\ vl_resp \in ImageResponses
    /\ vl_result = NoResult

Validate ==
    /\ ~vl_result.done
    /\ vl_result' = validate_mermaid_syntax(vl_resp)
    /\ UNCHANGED vl_resp

(***************************************************************************)
(* render_mermaid_to_image                                                 *)
(***************************************************************************)
RenderRetries == 3

\* the success test without the content-type check
RenderOkAnyType(resp) == ~resp.exc /\ resp.status = 200

\* the attempt's response is a 200 with an image content type
RenderOk(resp) == ~resp.exc /\ resp.status = 200 /\ IsImageType(resp.ctype)

\* one iteration of the loop: request, then write and return, or go on
RenderAttempt ==
    /\ rn_pc = "loop"
    /\ rn_attempt < RenderRetries
    /\ \E resp \in rn_menu :
          /\ rn_hist' = Append(rn_hist, resp)
          /\ IF RenderOk(resp)
             THEN /\ charts' = [charts EXCEPT ![rn_path] = FileOf(resp.body)]
                  /\ fs_log' = Append(fs_log, <<"chart", rn_path>>)
                  /\ rn_pc' = "returned"
                  /\ UNCHANGED <<rn_attempt, env_fault>>
             ELSE /\ rn_attempt' = rn_attempt + 1
                  /\ env_fault' = TRUE
                  /\ UNCHANGED <<charts, rn_pc, fs_log>>
    /\ UNCHANGED <<rn_menu, rn_code, rn_path, rn_file0>>

\* the loop is over: raise Exception("Failed to render Mermaid chart to image")
RenderExhausted ==
    /\ rn_pc = "loop"
    /\ rn_attempt >= RenderRetries
    /\ rn_pc' = "raised"
    /\ UNCHANGED <<charts, rn_menu, rn_code, rn_path, rn_attempt, rn_file0, rn_hist>>
    /\ UNCHANGED envVars

(***************************************************************************)
(* generate_speech_elevenlabs                                              *)
(***************************************************************************)
FallbackDuration == 5000

\* a body of the speech service: audio tells whether pydub can decode the
\* bytes, ms is then len(audio)
AudioBodies == [data : {"mp3a", "mp3b"}, audio : BOOLEAN, ms : {1200, 5000, 7300}]

NoAudio == [data |-> "none", audio |-> FALSE, ms |-> 0]

SpeechResponses ==
    {[exc |-> TRUE, status |-> 0, body |-> NoAudio]} \cup
    {[exc |-> FALSE, status |-> st, body |-> b] : st \in HttpStatuses, b \in AudioBodies}

AbsentAudio == [exists |-> FALSE, body |-> NoAudio]
AudioOf(b) == [exists |-> TRUE, body |-> b]
StaleAudio == AudioOf([data |-> "old", audio |-> TRUE, ms |-> 3000])

\* the call writing the body whatever the status
speech_writes_any_status(resp, file) ==
    IF resp.exc THEN [pc |-> "raised", duration |-> 0, file |-> file, wrote |-> FALSE]
    ELSE IF resp.status = 200
    THEN IF resp.body.audio
         THEN [pc |-> "returned", duration |-> resp.body.ms,
               file |-> AudioOf(resp.body), wrote |-> TRUE]
         ELSE [pc |-> "raised", duration |-> 0,
               file |-> AudioOf(resp.body), wrote |-> TRUE]
    ELSE [pc |-> "returned", duration |-> FallbackDuration,
          file |-> AudioOf(resp.body), wrote |-> TRUE]

\* the call, given the outcome of its POST: where it ends, what it returns
\* and what is at output_path afterwards
speech_outcome(resp, file) ==
    IF resp.exc THEN [pc |-> "raised", duration |-> 0, file |-> file, wrote |-> FALSE]
    ELSE IF resp.status = 200
    THEN IF resp.body.audio
         THEN [pc |-> "returned", duration |-> resp.body.ms,
               file |-> AudioOf(resp.body), wrote |-> TRUE]
         ELSE [pc |-> "raised", duration |-> 0,
               file |-> AudioOf(resp.body), wrote |-> TRUE]
    ELSE [pc |-> "returned", duration |-> FallbackDuration, file |-> file,
          wrote |-> FALSE]

SpeechCall ==
    /\ sp_pc = "call"
    /\ \E resp \in sp_menu :
          LET out == speech_outcome(resp, audio[sp_path])
          IN  /\ sp_resp' = resp
              /\ sp_pc' = out.pc
              /\ sp_result' = out.duration
              /\ audio' = [audio EXCEPT ![sp_path] = out.file]
              /\ fs_log' = IF out.wrote THEN Append(fs_log, <<"audio", sp_path>>)
                            ELSE fs_log
              /\ env_fault' = (env_fault \/ resp.exc \/ resp.status # 200
                                \/ ~resp.body.audio)
    /\ UNCHANGED <<sp_menu, sp_path, sp_file0>>

(***************************************************************************)
(* generate_mermaid_chart                                                  *)
(***************************************************************************)
ChartRetries   == 10
MinArrows      == 4
ExampleCount   == 5
GuidanceFrom   == 3

TitleSlide ==
    [slide_number |-> 1, type |-> "title", title |-> "Topic", subtitle |-> "Sub",
     bullets |-> <<>>]
ContentSlide(n) ==
    [slide_number |-> n, type |-> "content", title |-> "Part", subtitle |-> "",
     bullets |-> <<"first", "second", "third">>]

\* get_pattern_examples(): the texts of the last 5 successful patterns
get_pattern_examples(file) ==
    LET data == load_successful_patterns(file).value
        ex   == LastN(data.successful_patterns, ExampleCount)
    IN  [i \in 1..Len(ex) |-> ex[i].pattern]

\* the prompt: the slide's title and bullets, the examples, and the number
\* of times the corrective guidance has been appended
InitialPrompt(slide, file) ==
    [title |-> slide.title, bullets |-> slide.bullets,
     examples |-> get_pattern_examples(file), guidance |-> 0]

NoPrompt == [title |-> "", bullets |-> <<>>, examples |-> <<>>, guidance |-> 0]

\* lines 168-174: strip, then take the fenced part or drop the fences
CleanCode(content) ==
    LET c == Strip(content)
    IN  IF Contains(c, FenceMermaid)
        THEN Strip(Split(Split(c, FenceMermaid)[2], Fence)[1])
        ELSE IF Contains(c, Fence) THEN Strip(Remove(c, Fence))
        ELSE c

\* the structural checks accepting 3 arrows
StructuralVerdictLax(code) ==
    LET lines == Split(code, NL)
    IN  IF ~StartsWith(Strip(lines[1]), <<"%%{init:">>) THEN "init"
        ELSE IF Len(lines) < 2 THEN "index_error"
        ELSE IF ~Contains(lines[2], GraphTD) /\ ~Contains(lines[2], GraphLR)
        THEN "graph"
        ELSE IF Count(code, <<"-->">>) < MinArrows - 1 THEN "arrows"
        ELSE IF Contains(code, <<"[", "\"">>) \/ Contains(code, <<"[", "'">>)
        THEN "quotes"
        ELSE "ok"

\* lines 177-202: the check that rejects the text, "index_error" when
\* lines[1] does not exist, "ok" when every check passes
StructuralVerdict(code) ==
    LET lines == Split(code, NL)
    IN  IF ~StartsWith(Strip(lines[1]), <<"%%{init:">>) THEN "init"
        ELSE IF Len(lines) < 2 THEN "index_error"
        ELSE IF ~Contains(lines[2], GraphTD) /\ ~Contains(lines[2], GraphLR)
        THEN "graph"
        ELSE IF Count(code, <<"-->">>) < MinArrows THEN "arrows"
        ELSE IF Contains(code, <<"[", "\"">>) \/ Contains(code, <<"[", "'">>)
        THEN "quotes"
        ELSE "ok"

Rejections == {"init", "graph", "arrows", "quotes"}

Responses ==
    {GoodChart, GoodChartLR, FencedChart, PlainFencedChart, NoInitChart,
     OneLineChart, BadGraphChart, ThreeArrowChart, QuoteChart, LooseChart, <<>>}

\* a chat-completion call raises or returns a text
LlmError == [exc |-> TRUE, content |-> <<>>]
LlmText(t) == [exc |-> FALSE, content |-> t]

\* the language model of a call raises, answers GoodChart or answers one
\* other text
LlmMenus == {{LlmError, LlmText(GoodChart), LlmText(r)} : r \in Responses}

\* the responses the confirmation request is driven with
ConfirmResponses ==
    {PngOk,
     HttpResponse(200, <<"image", "/", "png">>,
                  [data |-> "png2", size |-> 500, image |-> FALSE])}

NoAttempt == [code |-> <<>>, outcome |-> "none"]

\* the loop running one attempt more than max_retries
ChartLoopOpenLong == gm_attempt < ChartRetries + 1

\* for attempt in range(max_retries)
ChartLoopOpen == gm_attempt < ChartRetries

\* lines 106-153: read the examples and build the prompt
ChartStart ==
    /\ gm_pc = "start"
    /\ gm_prompt' = InitialPrompt(gm_slide, store_file)
    /\ gm_attempt' = 0
    /\ gm_pc' = "loop"
    /\ UNCHANGED <<llm_menu, vl_menu, gm_slide, gm_result, gm_calls, gm_nconf,
                   gm_last>>
    /\ UNCHANGED <<storeVars, validateVars, envVars>>

\* save_successful_pattern(mermaid_code, success) from inside the attempt
SavePattern(code, success) ==
    LET res == save_successful_pattern(store_file, code, success, now)
    IN  /\ store_file' = res.file
        /\ st_prev' = store_file
        /\ st_call' = [called |-> TRUE, pattern |-> code, success |-> success,
                       ts |-> now, raised |-> res.raised]
        /\ rec_succ' = IF success THEN Append(rec_succ, PatternRecord(code, now))
                       ELSE rec_succ
        /\ rec_fail' = IF success THEN rec_fail
                       ELSE Append(rec_fail, PatternRecord(code, now))
        /\ UNCHANGED now

\* the except clause recording the text as a failed pattern
AttemptRaisedRecorded(code, outcome) ==
    /\ SavePattern(code, FALSE)
    /\ gm_attempt' = gm_attempt + 1
    /\ gm_last' = [code |-> code, outcome |-> outcome]
    /\ env_fault' = TRUE
    /\ UNCHANGED <<gm_pc, gm_prompt, gm_result, gm_nconf>>
    /\ UNCHANGED validateVars

\* the attempt ends in the except clause: nothing is recorded
AttemptRaised(code, outcome) ==
    /\ gm_attempt' = gm_attempt + 1
    /\ gm_last' = [code |-> code, outcome |-> outcome]
    /\ env_fault' = TRUE
    /\ UNCHANGED <<gm_pc, gm_prompt, gm_result, gm_nconf>>
    /\ UNCHANGED <<storeVars, validateVars>>

\* the rejected text recorded as a successful pattern
AttemptRejectedAsSuccess(code, verdict) ==
    /\ SavePattern(code, TRUE)
    /\ gm_attempt' = gm_attempt + 1
    /\ gm_last' = [code |-> code, outcome |-> verdict]
    /\ env_fault' = TRUE
    /\ UNCHANGED <<gm_pc, gm_prompt, gm_result, gm_nconf>>
    /\ UNCHANGED validateVars

\* a structural check rejects the text: record it as failed and continue
AttemptRejected(code, verdict) ==
    /\ SavePattern(code, FALSE)
    /\ gm_attempt' = gm_attempt + 1
    /\ gm_last' = [code |-> code, outcome |-> verdict]
    /\ env_fault' = TRUE
    /\ UNCHANGED <<gm_pc, gm_prompt, gm_result, gm_nconf>>
    /\ UNCHANGED validateVars

\* the guidance appended after every unconfirmed attempt
NextPromptAlways(prompt, attempt) == [prompt EXCEPT !.guidance = @ + 1]

\* lines 214-215: if attempt >= 3: prompt += the corrective guidance
NextPrompt(prompt, attempt) ==
    IF attempt >= GuidanceFrom THEN [prompt EXCEPT !.guidance = @ + 1] ELSE prompt

\* the text passed the structural checks: the render test decides
AttemptTested(code, vresp) ==
    LET v == validate_mermaid_syntax(vresp)
    IN  /\ vl_resp' = vresp
        /\ vl_result' = v
        /\ IF v.value
           THEN /\ SavePattern(code, TRUE)
                /\ gm_result' = code
                /\ gm_pc' = "returned"
                /\ gm_nconf' = gm_nconf + 1
                /\ gm_last' = [code |-> code, outcome |-> "confirmed"]
                /\ UNCHANGED <<gm_attempt, gm_prompt, env_fault>>
           ELSE /\ SavePattern(code, FALSE)
                /\ gm_prompt' = NextPrompt(gm_prompt, gm_attempt)
                /\ gm_attempt' = gm_attempt + 1
                /\ gm_last' = [code |-> code, outcome |-> "unconfirmed"]
                /\ env_fault' = TRUE
                /\ UNCHANGED <<gm_pc, gm_result, gm_nconf>>

\* one iteration of the loop: the chat-completion call, the clean-up, the
\* structural checks, the render test and the record
ChartAttempt ==
    /\ gm_pc = "loop"
    /\ ChartLoopOpen
    /\ gm_calls' = gm_calls + 1
    /\ fs_log' = fs_log
    /\ UNCHANGED <<llm_menu, vl_menu, gm_slide>>
    /\ \E answer \in llm_menu :
          LET code    == CleanCode(answer.content)
              verdict == StructuralVerdict(code)
          IN  IF answer.exc THEN AttemptRaised(<<>>, "llm_error")
              ELSE IF verdict = "index_error" THEN AttemptRaised(code, verdict)
              ELSE IF verdict \in Rejections THEN AttemptRejected(code, verdict)
              ELSE \E vresp \in vl_menu : AttemptTested(code, vresp)

\* the loop is over: raise Exception("Failed to generate valid Mermaid chart ...")
ChartExhausted ==
    /\ gm_pc = "loop"
    /\ ~ChartLoopOpen
    /\ gm_pc' = "raised"
    /\ UNCHANGED <<llm_menu, vl_menu, gm_slide, gm_attempt, gm_prompt, gm_result,
                   gm_calls, gm_nconf, gm_last>>
    /\ UNCHANGED <<storeVars, validateVars, envVars>>

(***************************************************************************)
(* create_slide_image and generate_video_presentation                      *)
(***************************************************************************)
TopicLimit == 50

AlnumChars == {"A", "I", "M", "L", "x", "7"}

\* every character is kept
KeptCharAny(c) == TRUE

\* c.isalnum() or c in (' ', '-', '_')
KeptChar(c) == c \in AlnumChars \/ c \in {" ", "-", "_"}

\* lines 492-493: drop the other characters, turn spaces into underscores,
\* keep the first 50 characters
SafeTopic(t) ==
    LET kept == SelectSeq(t, KeptChar)
        under == [i \in 1..Len(kept) |-> IF kept[i] = " " THEN "_" ELSE kept[i]]
    IN  FirstN(under, TopicLimit)

\* line 494
DerivedFilename(t) == SafeTopic(t) \o <<"_presentation.mp4">>

NoImage == [exists |-> FALSE, type |-> "none", diagram |-> "none"]

\* create_slide_image(slide_data, logo_path, output_path, mermaid_image_path):
\* the saved image carries the diagram when the path is given, the file
\* exists and PIL can open it
create_slide_image(slide, mpath, chartfiles) ==
    [exists |-> TRUE, type |-> slide.type,
     diagram |-> IF mpath # 0 /\ chartfiles[mpath].exists /\ chartfiles[mpath].body.image
                 THEN chartfiles[mpath].body.data
                 ELSE "none"]

MaxBulletWidth == 800

\* the rendered widths of single words, one of them wider than the bound
WordWidths == {90, 390, 410, 800, 900}

\* the rendered width of a space between two words
SpaceWidth == 10

RECURSIVE LineWidth(_)
\* lines 419-421: the width of the bounding box of ' '.join(current_line)
LineWidth(line) ==
    IF line = <<>> THEN 0
    ELSE IF Len(line) = 1 THEN line[1]
    ELSE Head(line) + SpaceWidth + LineWidth(Tail(line))

RECURSIVE WrapWords(_, _, _)
\* lines 417-427: the loop over the words, then the last line
WrapWords(words, lines, current_line) ==
    IF words = <<>>
    THEN IF current_line # <<>> THEN Append(lines, current_line) ELSE lines
    ELSE LET word == Head(words)
             test_line == Append(current_line, word)
         IN  IF LineWidth(test_line) > MaxBulletWidth
             THEN WrapWords(Tail(words), Append(lines, current_line), <<word>>)
             ELSE WrapWords(Tail(words), lines, test_line)

\* lines 412-427: the wrapped lines of one bullet
wrap_bullet(words) == WrapWords(words, <<>>, <<>>)

\* one bullet goes through the word wrap
WrapBullet ==
    /\ wr_pc = "ready"
    /\ wr_lines' = wrap_bullet(wr_words)
    /\ wr_pc' = "done"
    /\ UNCHANGED <<wr_words, cs_pc, cs_slide, cs_path, cs_size, cs_image, cs_pasted>>

MaxChartWidth == 800
MaxChartHeight == 600

\* widths and heights of diagram images; on these the quotients of lines
\* 449-455 are the same in floating point as in whole numbers
ImageSides == {1, 300, 600, 650, 800, 900, 1200, 1600, 2400}

\* lines 446-456: the size the diagram is pasted at; aspect = width / height
\* exceeds 1 exactly when the width exceeds the height
chart_size(w, h) ==
    IF w > MaxChartWidth \/ h > MaxChartHeight
    THEN IF w > h
         THEN <<MaxChartWidth, (MaxChartWidth * h) \div w>>
         ELSE <<(MaxChartHeight * w) \div h, MaxChartHeight>>
    ELSE <<w, h>>

NoSize == <<0, 0>>

\* a call of create_slide_image from outside the orchestrator: resize
\* raises on a side of 0, and the except clause of line 468 leaves the slide
\* without the diagram
ComposeSlide ==
    /\ cs_pc = "ready"
    /\ LET img  == create_slide_image(cs_slide, cs_path, charts)
           size == IF img.diagram # "none" THEN chart_size(cs_size[1], cs_size[2])
                   ELSE NoSize
           ok   == size[1] > 0 /\ size[2] > 0
       IN  /\ cs_image' = IF ok THEN img ELSE [img EXCEPT !.diagram = "none"]
           /\ cs_pasted' = IF ok THEN size ELSE NoSize
    /\ cs_pc' = "done"
    /\ UNCHANGED <<cs_slide, cs_path, cs_size, wr_pc, wr_words, wr_lines>>

RECURSIVE SumDurations(_)
\* the duration of the concatenation of the clips
SumDurations(clips) ==
    IF clips = <<>> THEN 0 ELSE Head(clips).duration + SumDurations(Tail(clips))

NoVideo == [exists |-> FALSE, name |-> <<>>, segments |-> <<>>, duration |-> 0]

\* the outlines the content generator and parse_gpt_content can give
Outline(n) == [i \in 1..n |-> IF i = 1 THEN TitleSlide ELSE ContentSlide(i)]
Outlines == {Outline(n) : n \in 0..MaxSlides} \cup {<<ContentSlide(1)>>}

\* what the services do during one diagram step
VideoChartModes ==
    {[llm |-> {LlmText(GoodChart)}, vl |-> {PngOk}],
     [llm |-> {LlmText(GoodChart)}, vl |-> ConfirmResponses \ {PngOk}],
     [llm |-> {LlmError}, vl |-> {PngOk}],
     [llm |-> {LlmText(NoInitChart)}, vl |-> {PngOk}]}

VideoRenderResponses ==
    {PngOk, RaisedResponse,
     HttpResponse(404, <<"image", "/", "png">>, [data |-> "png2", size |-> 2000, image |-> TRUE])}

VideoSpeechResponses ==
    {[exc |-> TRUE, status |-> 0, body |-> NoAudio],
     [exc |-> FALSE, status |-> 500, body |-> [data |-> "mp3a", audio |-> FALSE, ms |-> 1200]],
     [exc |-> FALSE, status |-> 200, body |-> [data |-> "mp3b", audio |-> FALSE, ms |-> 1200]],
     [exc |-> FALSE, status |-> 200, body |-> [data |-> "mp3a", audio |-> TRUE, ms |-> 1200]],
     [exc |-> FALSE, status |-> 200, body |-> [data |-> "mp3b", audio |-> TRUE, ms |-> 7300]]}

\* the locals of a call are gone once the caller has its outcome
ChartGone ==
    /\ llm_menu' = {}
    /\ vl_menu' = {}
    /\ gm_pc' = "idle"
    /\ gm_slide' = TitleSlide
    /\ gm_attempt' = 0
    /\ gm_prompt' = NoPrompt
    /\ gm_result' = <<>>
    /\ gm_calls' = 0
    /\ gm_nconf' = 0
    /\ gm_last' = NoAttempt

RenderGone ==
    /\ rn_menu' = {}
    /\ rn_pc' = "idle"
    /\ rn_code' = <<>>
    /\ rn_path' = 1
    /\ rn_attempt' = 0
    /\ rn_file0' = AbsentPath
    /\ rn_hist' = <<>>

SpeechGone ==
    /\ sp_menu' = {}
    /\ sp_pc' = "idle"
    /\ sp_path' = 1
    /\ sp_resp' = [exc |-> TRUE, status |-> 0, body |-> NoAudio]
    /\ sp_result' = 0
    /\ sp_file0' = AbsentAudio

\* lines 487-494: make the directories, derive the output filename
VpBegin ==
    /\ vp_pc = "begin"
    /\ output_filename' = IF output_filename.given THEN output_filename
                          ELSE [given |-> TRUE, name |-> DerivedFilename(topic)]
    /\ vp_pc' = "content"
    /\ UNCHANGED <<topic, slides_data, vp_idx, mermaid_image_path, duration,
                   slide_images, video_clips, final_video, vp_nodiag, sp_returns>>
    /\ UNCHANGED <<storeVars, validateVars, renderVars, speechVars, chartVars, envVars>>

\* the slide loop goes on with slide i, or is over
LoopTo(i, outline) ==
    /\ vp_idx' = i
    /\ vp_pc' = IF i <= Len(outline) THEN "slide" ELSE "assemble"

\* lines 498-504: generate and parse the outline; either call can raise
VpContent ==
    /\ vp_pc = "content"
    /\ \/ /\ \E outline \in Outlines :
                /\ slides_data' = outline
                /\ LoopTo(1, outline)
          /\ video_clips' = <<>>
          /\ UNCHANGED env_fault
       \/ /\ vp_pc' = "failed"
          /\ env_fault' = TRUE
          /\ UNCHANGED <<slides_data, video_clips, vp_idx>>
    /\ UNCHANGED <<topic, output_filename, mermaid_image_path, duration,
                   slide_images, final_video, vp_nodiag, sp_returns, fs_log>>
    /\ UNCHANGED <<storeVars, validateVars, renderVars, speechVars, chartVars>>

\* a chart for every slide, the title slide too
NeedsChartAlways(slide) == TRUE

\* line 512: slide_data.get('type') != 'title'
NeedsChart(slide) == slide.type # "title"

\* lines 506-515: the head of an iteration; a slide that is not a title
\* slide calls generate_mermaid_chart
VpSlide ==
    /\ vp_pc = "slide"
    /\ mermaid_image_path' = 0
    /\ IF NeedsChart(slides_data[vp_idx])
       THEN /\ vp_pc' = "chart"
            /\ \E mode \in VideoChartModes :
                  /\ llm_menu' = mode.llm
                  /\ vl_menu' = mode.vl
            /\ gm_pc' = "start"
            /\ gm_slide' = slides_data[vp_idx]
            /\ UNCHANGED <<gm_attempt, gm_prompt, gm_result, gm_calls, gm_nconf,
                           gm_last>>
       ELSE /\ vp_pc' = "narration"
            /\ UNCHANGED chartVars
    /\ UNCHANGED <<topic, output_filename, slides_data, vp_idx, duration,
                   slide_images, video_clips, final_video, vp_nodiag, sp_returns>>
    /\ UNCHANGED <<storeVars, validateVars, renderVars, speechVars, envVars>>

\* lines 515-517: the text came back; set the chart path and call
\* render_mermaid_to_image
VpChartReturned ==
    /\ vp_pc = "chart"
    /\ gm_pc = "returned"
    /\ mermaid_image_path' = vp_idx
    /\ rn_menu' = VideoRenderResponses
    /\ rn_pc' = "loop"
    /\ rn_code' = gm_result
    /\ rn_path' = vp_idx
    /\ rn_attempt' = 0
    /\ rn_file0' = charts[vp_idx]
    /\ rn_hist' = <<>>
    /\ ChartGone
    /\ vp_pc' = "render"
    /\ UNCHANGED <<topic, output_filename, slides_data, vp_idx, duration,
                   slide_images, video_clips, final_video, vp_nodiag, sp_returns>>
    /\ UNCHANGED <<charts, storeVars, validateVars, speechVars, envVars>>

\* the except clause without the reset of the chart path
DiagramSkippedKeepsPath(err) ==
    /\ UNCHANGED mermaid_image_path
    /\ vp_nodiag' = vp_nodiag \cup {<<vp_idx, err>>}
    /\ vp_pc' = "narration"

\* the exception of the diagram step ending the run
DiagramSkippedAborts(err) ==
    /\ UNCHANGED <<mermaid_image_path, vp_nodiag>>
    /\ vp_pc' = "failed"

\* lines 518-520: except Exception: mermaid_image_path = None
DiagramSkipped(err) ==
    /\ mermaid_image_path' = 0
    /\ vp_nodiag' = vp_nodiag \cup {<<vp_idx, err>>}
    /\ vp_pc' = "narration"

\* generate_mermaid_chart raised
VpChartRaised ==
    /\ vp_pc = "chart"
    /\ gm_pc = "raised"
    /\ DiagramSkipped("generate")
    /\ ChartGone
    /\ UNCHANGED <<topic, output_filename, slides_data, vp_idx, duration,
                   slide_images, video_clips, final_video, sp_returns>>
    /\ UNCHANGED <<storeVars, validateVars, renderVars, speechVars, envVars>>

\* render_mermaid_to_image returned: the path stays set
VpRenderReturned ==
    /\ vp_pc = "render"
    /\ rn_pc = "returned"
    /\ RenderGone
    /\ vp_pc' = "narration"
    /\ UNCHANGED <<topic, output_filename, slides_data, vp_idx, mermaid_image_path,
                   duration, slide_images, video_clips, final_video, vp_nodiag,
                   sp_returns>>
    /\ UNCHANGED <<charts, storeVars, validateVars, speechVars, chartVars, envVars>>

\* render_mermaid_to_image raised
VpRenderRaised ==
    /\ vp_pc = "render"
    /\ rn_pc = "raised"
    /\ DiagramSkipped("render")
    /\ RenderGone
    /\ UNCHANGED <<topic, output_filename, slides_data, vp_idx, duration,
                   slide_images, video_clips, final_video, sp_returns>>
    /\ UNCHANGED <<charts, storeVars, validateVars, speechVars, chartVars, envVars>>

\* lines 525-530: the narration call, which can raise, then the call of
\* generate_speech_elevenlabs
VpNarration ==
    /\ vp_pc = "narration"
    /\ \/ /\ vp_pc' = "speech"
          /\ sp_menu' = VideoSpeechResponses
          /\ sp_pc' = "call"
          /\ sp_path' = vp_idx
          /\ sp_file0' = audio[vp_idx]
          /\ UNCHANGED <<audio, sp_resp, sp_result, env_fault>>
       \/ /\ vp_pc' = "failed"
          /\ env_fault' = TRUE
          /\ UNCHANGED speechVars
    /\ UNCHANGED <<topic, output_filename, slides_data, vp_idx, mermaid_image_path,
                   duration, slide_images, video_clips, final_video, vp_nodiag,
                   sp_returns, fs_log>>
    /\ UNCHANGED <<storeVars, validateVars, renderVars, chartVars>>

\* line 530: the duration came back
VpSpeechReturned ==
    /\ vp_pc = "speech"
    /\ sp_pc = "returned"
    /\ duration' = sp_result
    /\ sp_returns' = Append(sp_returns, sp_result)
    /\ SpeechGone
    /\ vp_pc' = "image"
    /\ UNCHANGED <<topic, output_filename, slides_data, vp_idx, mermaid_image_path,
                   slide_images, video_clips, final_video, vp_nodiag>>
    /\ UNCHANGED <<audio, storeVars, validateVars, renderVars, chartVars, envVars>>

\* generate_speech_elevenlabs raised: nothing catches it
VpSpeechRaised ==
    /\ vp_pc = "speech"
    /\ sp_pc = "raised"
    /\ SpeechGone
    /\ vp_pc' = "failed"
    /\ UNCHANGED <<topic, output_filename, slides_data, vp_idx, mermaid_image_path,
                   duration, slide_images, video_clips, final_video, vp_nodiag,
                   sp_returns>>
    /\ UNCHANGED <<audio, storeVars, validateVars, renderVars, chartVars, envVars>>

\* lines 533-534: create_slide_image writes the slide image
VpImage ==
    /\ vp_pc = "image"
    /\ slide_images' = [slide_images EXCEPT ![vp_idx] =
          create_slide_image(slides_data[vp_idx], mermaid_image_path, charts)]
    /\ fs_log' = Append(fs_log, <<"slide", vp_idx>>)
    /\ vp_pc' = "clip"
    /\ UNCHANGED <<topic, output_filename, slides_data, vp_idx, mermaid_image_path,
                   duration, video_clips, final_video, vp_nodiag, sp_returns>>
    /\ UNCHANGED <<env_fault, storeVars, validateVars, renderVars, speechVars, chartVars>>

\* the clip taking the audio of the first slide whatever the index
MakeClipFirstAudio(idx, images, sounds, dur) ==
    [image |-> idx, picture |-> images[idx], sound |-> 1,
     track |-> sounds[1].body, duration |-> dur]

\* lines 537-539: the slide's image shown for the duration, with the
\* slide's audio file as its sound
MakeClip(idx, images, sounds, dur) ==
    [image |-> idx, picture |-> images[idx], sound |-> idx,
     track |-> sounds[idx].body, duration |-> dur]

\* an audio clip comes out of any path
AudioReadableAlways(file) == TRUE

\* line 538: AudioFileClip(audio_path) raises when the audio file is
\* missing or cannot be decoded
AudioReadable(file) == file.exists /\ file.body.audio

\* lines 537-541: the clip of the slide
VpClip ==
    /\ vp_pc = "clip"
    /\ IF AudioReadable(audio[vp_idx])
       THEN /\ video_clips' = Append(video_clips,
                  MakeClip(vp_idx, slide_images, audio, duration))
            /\ LoopTo(vp_idx + 1, slides_data)
       ELSE /\ vp_pc' = "failed"
            /\ UNCHANGED <<video_clips, vp_idx>>
    /\ UNCHANGED <<topic, output_filename, slides_data, mermaid_image_path,
                   duration, slide_images, final_video, vp_nodiag, sp_returns>>
    /\ UNCHANGED <<storeVars, validateVars, renderVars, speechVars, chartVars, envVars>>

\* lines 545-568: concatenate (which raises on an empty list), write the
\* video, return the filename
VpAssemble ==
    /\ vp_pc = "assemble"
    /\ IF video_clips = <<>>
       THEN /\ vp_pc' = "failed"
            /\ UNCHANGED final_video
       ELSE /\ final_video' = [exists |-> TRUE, name |-> output_filename.name,
                               segments |-> video_clips,
                               duration |-> SumDurations(video_clips)]
            /\ vp_pc' = "done"
    /\ UNCHANGED <<topic, output_filename, slides_data, vp_idx, mermaid_image_path,
                   duration, slide_images, video_clips, vp_nodiag, sp_returns>>
    /\ UNCHANGED <<storeVars, validateVars, renderVars, speechVars, chartVars, envVars>>

(***************************************************************************)
(* The state of each part while it is not running.                         *)
(***************************************************************************)
Slots == 1..MaxSlides

IdleStore ==
    /\ store_file = AbsentFile
    /\ now = 0
    /\ st_prev = AbsentFile
    /\ st_call = NoCall
    /\ rec_succ = <<>>
    /\ rec_fail = <<>>

IdleValidate ==
    /\ vl_resp = RaisedResponse
    /\ vl_result = NoResult

IdleRender ==
    /\ charts = [i \in Slots |-> AbsentPath]
    /\ rn_menu = {}
    /\ rn_pc = "idle"
    /\ rn_code = <<>>
    /\ rn_path = 1
    /\ rn_attempt = 0
    /\ rn_file0 = AbsentPath
    /\ rn_hist = <<>>

IdleSpeech ==
    /\ audio = [i \in Slots |-> AbsentAudio]
    /\ sp_menu = {}
    /\ sp_pc = "idle"
    /\ sp_path = 1
    /\ sp_resp = [exc |-> TRUE, status |-> 0, body |-> NoAudio]
    /\ sp_result = 0
    /\ sp_file0 = AbsentAudio

IdleEnv ==
    /\ fs_log = <<>>
    /\ env_fault = FALSE

IdleChart ==
    /\ llm_menu = {}
    /\ vl_menu = {}
    /\ gm_pc = "idle"
    /\ gm_slide = TitleSlide
    /\ gm_attempt = 0
    /\ gm_prompt = NoPrompt
    /\ gm_result = <<>>
    /\ gm_calls = 0
    /\ gm_nconf = 0
    /\ gm_last = NoAttempt

IdleVideo ==
    /\ vp_pc = "idle"
    /\ topic = <<>>
    /\ output_filename = [given |-> FALSE, name |-> <<>>]
    /\ slides_data = <<>>
    /\ vp_idx = 0
    /\ mermaid_image_path = 0
    /\ duration = 0
    /\ slide_images = [i \in Slots |-> NoImage]
    /\ video_clips = <<>>
    /\ final_video = NoVideo
    /\ vp_nodiag = {}
    /\ sp_returns = <<>>

IdleSlide ==
    /\ wr_pc = "idle"
    /\ wr_words = <<>>
    /\ wr_lines = <<>>
    /\ cs_pc = "idle"
    /\ cs_slide = TitleSlide
    /\ cs_path = 0
    /\ cs_size = NoSize
    /\ cs_image = NoImage
    /\ cs_pasted = NoSize

Writers == {1, 2}

NoArg == [pattern |-> <<>>, success |-> FALSE]

IdleRace ==
    /\ rc_writers = {}
    /\ rc_pc = [w \in Writers |-> "idle"]
    /\ rc_arg = [w \in Writers |-> NoArg]
    /\ rc_data = [w \in Writers |-> AbsentFile]
    /\ rc_calls = [w \in Writers |-> 0]
    /\ rc_done = {}
    /\ rc_overlap = FALSE

otherThanStore ==
    <<validateVars, renderVars, speechVars, chartVars, envVars, videoVars, slideVars, raceVars>>
otherThanValidate ==
    <<storeVars, renderVars, speechVars, chartVars, envVars, videoVars, slideVars, raceVars>>
otherThanRender ==
    <<storeVars, validateVars, speechVars, chartVars, videoVars, slideVars, raceVars>>
otherThanSpeech ==
    <<storeVars, validateVars, renderVars, chartVars, videoVars, slideVars, raceVars>>
otherThanChart == <<renderVars, speechVars, videoVars, slideVars, raceVars>>
otherThanSlide ==
    <<storeVars, validateVars, renderVars, speechVars, chartVars, envVars, videoVars, raceVars>>

(***************************************************************************)
(* The store on its own: record calls with any text and flag, from any     *)
(* file state the program can find.                                        *)
(***************************************************************************)
StorePatterns == {GoodChart, NoInitChart, <<>>}

\* the k-th text recorded in the cap specification
FeedTexts == <<GoodChart, NoInitChart, QuoteChart>>
Feed(k) == FeedTexts[(k % Len(FeedTexts)) + 1]

\* the store file after ns successful and nf failed records (ns, nf within
\* the caps) made at time 0 by a writer following the feed
FilledStore(ns, nf) ==
    PickleFile([successful_patterns |-> [k \in 1..ns |-> PatternRecord(Feed(k), 0)],
                failed_patterns |-> [k \in 1..nf |-> PatternRecord(Feed(k), 0)]])

InitialStores ==
    {AbsentFile, EmptyFile, CorruptFile,
     FilledStore(SuccessCap - 1, FailCap - 1), FilledStore(SuccessCap, FailCap)}

InitStore ==
    /\ store_file \in InitialStores
    /\ now = 0
    /\ st_prev = store_file
    /\ st_call = NoCall
    /\ rec_succ = <<>>
    /\ rec_fail = <<>>

\* datetime.now() advances between calls
Tick ==
    /\ now < MaxClock
    /\ now' = now + 1
    /\ UNCHANGED <<store_file, st_prev, st_call, rec_succ, rec_fail>>

\* one call save_successful_pattern(p, success)
Record(p, success) ==
    LET res == save_successful_pattern(store_file, p, success, now)
    IN  /\ store_file' = res.file
        /\ st_prev' = store_file
        /\ st_call' = [called |-> TRUE, pattern |-> p, success |-> success,
                       ts |-> now, raised |-> res.raised]
        /\ rec_succ' = IF success /\ ~res.raised
                       THEN Append(rec_succ, PatternRecord(p, now)) ELSE rec_succ
        /\ rec_fail' = IF ~success /\ ~res.raised
                       THEN Append(rec_fail, PatternRecord(p, now)) ELSE rec_fail
        /\ UNCHANGED now

RecordAny ==
    /\ Len(rec_succ) + Len(rec_fail) < MaxSaves
    /\ \E p \in StorePatterns, success \in BOOLEAN : Record(p, success)

NextStore ==
    \/ Tick /\ UNCHANGED otherThanStore
    \/ RecordAny /\ UNCHANGED otherThanStore

InitStoreAll ==
    /\ InitStore
    /\ IdleValidate
    /\ IdleRender
    /\ IdleSpeech
    /\ IdleChart
    /\ IdleEnv
    /\ IdleVideo
    /\ IdleSlide
    /\ IdleRace

SpecStore == InitStoreAll /\ [][NextStore]_vars

(***************************************************************************)
(* The caps: a single writer starting from an absent file; its k-th        *)
(* record of a kind carries the k-th text of the feed.                     *)
(***************************************************************************)
InitCap ==
    /\ store_file = AbsentFile
    /\ now = 0
    /\ st_prev = store_file
    /\ st_call = NoCall
    /\ rec_succ = <<>>
    /\ rec_fail = <<>>

RecordSuccess ==
    /\ Len(rec_succ) < MaxSucc
    /\ Record(Feed(Len(rec_succ) + 1), TRUE)

RecordFailure ==
    /\ Len(rec_fail) < MaxFail
    /\ Record(Feed(Len(rec_fail) + 1), FALSE)

NextCap ==
    \/ RecordSuccess /\ UNCHANGED otherThanStore
    \/ RecordFailure /\ UNCHANGED otherThanStore

InitCapAll ==
    /\ InitCap
    /\ IdleValidate
    /\ IdleRender
    /\ IdleSpeech
    /\ IdleChart
    /\ IdleEnv
    /\ IdleVideo
    /\ IdleSlide
    /\ IdleRace

SpecCap == InitCapAll /\ [][NextCap]_vars

\* C5: from an absent file and with a single writer, the stored lists hold
\* at most 50 and 20 entries, and each is exactly the newest entries of its
\* kind in recording order
StoreKeepsNewest ==
    /\ store_file.kind \in {"absent", "pickle"}
    /\ Len(store_file.data.successful_patterns) <= SuccessCap
    /\ Len(store_file.data.failed_patterns) <= FailCap
    /\ store_file.data.successful_patterns = LastN(rec_succ, SuccessCap)
    /\ store_file.data.failed_patterns = LastN(rec_fail, FailCap)

\* both lists have dropped their oldest entries
BothCapsExceeded ==
    /\ Len(rec_succ) > SuccessCap
    /\ Len(rec_fail) > FailCap
    /\ Len(store_file.data.successful_patterns) = SuccessCap
    /\ Len(store_file.data.failed_patterns) = FailCap

\* C8: recording p with success=True then loading gives p as the last
\* successful entry and the failed list as it was; success=False likewise
\* with the lists exchanged
RecordThenLoad ==
    st_call.called =>
        LET before == load_successful_patterns(st_prev).value
            after  == load_successful_patterns(store_file)
            mine   == IF st_call.success THEN after.value.successful_patterns
                                         ELSE after.value.failed_patterns
            other  == IF st_call.success THEN after.value.failed_patterns
                                         ELSE after.value.successful_patterns
            otherBefore == IF st_call.success THEN before.failed_patterns
                                              ELSE before.successful_patterns
        IN  /\ ~st_call.raised
            /\ ~after.raised
            /\ mine # <<>>
            /\ mine[Len(mine)].pattern = st_call.pattern
            /\ other = otherBefore

\* a successful record was made on a store already at its caps
RecordedAtCap ==
    /\ st_call.called
    /\ st_call.success
    /\ st_prev = FilledStore(SuccessCap, FailCap)
    /\ Len(store_file.data.successful_patterns) = SuccessCap

\* C9: loading an absent, empty or corrupted file does not raise and gives
\* two empty lists, so the record call that follows succeeds and leaves a
\* store holding exactly the one new record
LoadTolerant ==
    /\ store_file.kind \in {"absent", "empty", "corrupt"} =>
          /\ ~load_successful_patterns(store_file).raised
          /\ load_successful_patterns(store_file).value = EmptyStore
    /\ (st_call.called /\ st_prev.kind \in {"absent", "empty", "corrupt"}) =>
          /\ ~st_call.raised
          /\ store_file.kind = "pickle"
          /\ store_file.data =
                IF st_call.success
                THEN [successful_patterns |->
                          <<PatternRecord(st_call.pattern, st_call.ts)>>,
                      failed_patterns |-> <<>>]
                ELSE [successful_patterns |-> <<>>,
                      failed_patterns |->
                          <<PatternRecord(st_call.pattern, st_call.ts)>>]

\* a record call has just run on a corrupted file
RecordedOverCorrupt ==
    /\ st_call.called
    /\ st_prev.kind = "corrupt"
    /\ store_file.kind = "pickle"

(***************************************************************************)
(* The confirmation on its own, on every response.                         *)
(***************************************************************************)
NextValidate == Validate /\ UNCHANGED otherThanValidate

InitValidateAll ==
    /\ InitValidate
    /\ IdleStore
    /\ IdleRender
    /\ IdleSpeech
    /\ IdleChart
    /\ IdleEnv
    /\ IdleVideo
    /\ IdleSlide
    /\ IdleRace

SpecValidate == InitValidateAll /\ [][NextValidate]_vars

\* C10: the confirmation never raises and is true exactly when the request
\* completes with status 200, a content type containing "image" and more
\* than 1000 bytes
ConfirmationExact ==
    vl_result.done =>
        /\ ~vl_result.raised
        /\ vl_result.value <=>
              /\ ~vl_resp.exc
              /\ vl_resp.status = 200
              /\ \E i \in 1..Len(vl_resp.ctype) : vl_resp.ctype[i] = "image"
              /\ vl_resp.body.size > 1000

\* the confirmation accepted a payload of 1001 bytes
ConfirmedJustAbove ==
    /\ vl_result.done
    /\ vl_result.value
    /\ vl_resp.body.size = 1001

(***************************************************************************)
(* The renderer on its own: a call for any slot, the file there or not.    *)
(***************************************************************************)
InitRender ==
    /\ charts \in [Slots -> {AbsentPath, StaleChart}]
    /\ rn_menu = RenderResponses
    /\ rn_pc = "loop"
    /\ rn_code \in {GoodChart, GoodChartLR}
    /\ rn_path \in Slots
    /\ rn_attempt = 0
    /\ rn_file0 = charts[rn_path]
    /\ rn_hist = <<>>

NextRender ==
    \/ RenderAttempt /\ UNCHANGED otherThanRender
    \/ RenderExhausted /\ UNCHANGED otherThanRender

InitRenderAll ==
    /\ InitRender
    /\ IdleStore
    /\ IdleValidate
    /\ IdleSpeech
    /\ IdleChart
    /\ IdleEnv
    /\ IdleVideo
    /\ IdleSlide
    /\ IdleRace

SpecRender == InitRenderAll /\ [][NextRender]_vars

\* a response with status 200 and an image content type
IsImageAnswer(resp) ==
    /\ ~resp.exc
    /\ resp.status = 200
    /\ \E i \in 1..Len(resp.ctype) : resp.ctype[i] = "image"

\* C6: at most 3 requests; the first 200 image response is written as it is
\* and ends the call; a failed attempt never writes the file; after 3
\* failed attempts the rendering error is raised
RenderAtMostThree ==
    /\ Len(rn_hist) <= 3
    /\ \A i \in 1..(Len(rn_hist) - 1) : ~IsImageAnswer(rn_hist[i])
    /\ rn_pc = "returned" =>
          /\ rn_hist # <<>>
          /\ IsImageAnswer(rn_hist[Len(rn_hist)])
          /\ charts[rn_path] = FileOf(rn_hist[Len(rn_hist)].body)
    /\ rn_pc \in {"loop", "raised"} =>
          /\ \A i \in 1..Len(rn_hist) : ~IsImageAnswer(rn_hist[i])
          /\ charts[rn_path] = rn_file0
    /\ rn_pc = "raised" => Len(rn_hist) = 3
    /\ fs_log = IF rn_pc = "returned" THEN <<<<"chart", rn_path>>>> ELSE <<>>
    /\ \A i \in Slots : i # rn_path => charts[i] \in {AbsentPath, StaleChart}

\* two failures, then the third response is written over the old file
RenderedOnThird ==
    /\ rn_pc = "returned"
    /\ Len(rn_hist) = 3
    /\ rn_file0 = StaleChart
    /\ charts[rn_path] = FileOf(rn_hist[3].body)

(***************************************************************************)
(* The speech synthesizer on its own.                                      *)
(***************************************************************************)
InitSpeech ==
    /\ audio \in [Slots -> {AbsentAudio, StaleAudio}]
    /\ sp_menu = SpeechResponses
    /\ sp_pc = "call"
    /\ sp_path \in Slots
    /\ sp_resp = [exc |-> TRUE, status |-> 0, body |-> NoAudio]
    /\ sp_result = 0
    /\ sp_file0 = audio[sp_path]

NextSpeech == SpeechCall /\ UNCHANGED otherThanSpeech

InitSpeechAll ==
    /\ InitSpeech
    /\ IdleStore
    /\ IdleValidate
    /\ IdleRender
    /\ IdleChart
    /\ IdleEnv
    /\ IdleVideo
    /\ IdleSlide
    /\ IdleRace

SpecSpeech == InitSpeechAll /\ [][NextSpeech]_vars

\* C7 as stated: a non-200 status returns 5.0 and leaves the file alone; a
\* 200 writes the bytes and returns their decoded playback length
SpeechAlwaysReturns ==
    (sp_pc # "call" /\ ~sp_resp.exc) =>
        IF sp_resp.status = 200
        THEN /\ audio[sp_path] = AudioOf(sp_resp.body)
             /\ sp_pc = "returned"
             /\ sp_result = sp_resp.body.ms
        ELSE /\ sp_pc = "returned"
             /\ sp_result = 5000
             /\ audio[sp_path] = sp_file0

\* C7: a non-200 status returns 5.0 and leaves the file alone; a 200 writes
\* the bytes and returns their decoded playback length when they decode as
\* audio, and raises the decoding error when they do not
SpeechFallback ==
    (sp_pc # "call" /\ ~sp_resp.exc) =>
        IF sp_resp.status = 200
        THEN /\ audio[sp_path] = AudioOf(sp_resp.body)
             /\ IF sp_resp.body.audio
                THEN sp_pc = "returned" /\ sp_result = sp_resp.body.ms
                ELSE sp_pc = "raised"
        ELSE /\ sp_pc = "returned"
             /\ sp_result = 5000
             /\ audio[sp_path] = sp_file0

\* a 500 left an absent file absent and gave the fallback
FallbackLeftNoFile ==
    /\ sp_pc = "returned"
    /\ ~sp_resp.exc
    /\ sp_resp.status = 500
    /\ sp_result = 5000
    /\ ~audio[sp_path].exists

(***************************************************************************)
(* The diagram generator on its own: one call, on a new store or on one    *)
(* that already holds patterns.                                            *)
(***************************************************************************)
InitChart ==
    /\ store_file \in {AbsentFile, FilledStore(ExampleCount + 1, FailCap - 1)}
    /\ now = 0
    /\ st_prev = store_file
    /\ st_call = NoCall
    /\ rec_succ = <<>>
    /\ rec_fail = <<>>
    /\ llm_menu \in LlmMenus
    /\ vl_menu = ConfirmResponses
    /\ gm_pc = "start"
    /\ gm_slide = ContentSlide(2)
    /\ gm_attempt = 0
    /\ gm_prompt = NoPrompt
    /\ gm_result = <<>>
    /\ gm_calls = 0
    /\ gm_nconf = 0
    /\ gm_last = NoAttempt

InitChartAll ==
    /\ InitChart
    /\ IdleValidate
    /\ IdleRender
    /\ IdleSpeech
    /\ IdleEnv
    /\ IdleVideo
    /\ IdleSlide
    /\ IdleRace

NextChart ==
    \/ ChartStart /\ UNCHANGED otherThanChart
    \/ ChartAttempt /\ UNCHANGED otherThanChart
    \/ ChartExhausted /\ UNCHANGED otherThanChart

SpecChart == InitChartAll /\ [][NextChart]_vars

\* C2: at most 10 attempts and 10 chat-completion calls; the call returns
\* the text of the first attempt that passes the structural checks and the
\* render test, and raises exactly when none of the 10 attempts does
ChartTenAttempts ==
    /\ gm_calls <= 10
    /\ gm_attempt <= 10
    /\ gm_pc = "loop" => gm_nconf = 0 /\ gm_calls = gm_attempt
    /\ gm_pc = "returned" =>
          /\ gm_nconf = 1
          /\ gm_calls = gm_attempt + 1
          /\ gm_last.outcome = "confirmed"
          /\ gm_result = gm_last.code
          /\ gm_result \in {CleanCode(r.content) : r \in llm_menu}
    /\ gm_pc = "raised" => gm_nconf = 0 /\ gm_calls = 10

\* the tenth attempt was the first confirmed one
ReturnedOnTenth ==
    /\ gm_pc = "returned"
    /\ gm_calls = 10
    /\ gm_result = GoodChart

\* the four structural checks, as properties of the cleaned text
InitFirst(code) == StartsWith(Strip(Split(code, NL)[1]), <<"%%{init:">>)
GraphSecond(code) ==
    LET lines == Split(code, NL)
    IN  /\ Len(lines) >= 2
        /\ \E i \in 1..(Len(lines[2]) - 2) :
              /\ lines[2][i] = "graph"
              /\ lines[2][i + 1] = " "
              /\ lines[2][i + 2] \in {"TD", "LR"}
ArrowsEnough(code) == Cardinality({i \in 1..Len(code) : code[i] = "-->"}) >= 4
NoBracketQuote(code) ==
    \A i \in 1..(Len(code) - 1) : ~(code[i] = "[" /\ code[i + 1] \in {"\"", "'"})
FourChecksPass(code) ==
    InitFirst(code) /\ GraphSecond(code) /\ ArrowsEnough(code) /\ NoBracketQuote(code)

\* an attempt whose chat-completion call returned a text
TextAttempt == gm_calls' = gm_calls + 1 /\ gm_last'.outcome # "llm_error"

\* C11: a candidate reaches the render confirmation exactly when it passes
\* all four structural checks; a candidate that violates one is rejected,
\* recorded as a failed pattern, and the next attempt starts without a
\* render request
StructuralGate ==
    [][TextAttempt =>
         LET code == gm_last'.code
             passes == FourChecksPass(code)
         IN  /\ gm_last'.outcome \in {"confirmed", "unconfirmed"} <=> passes
             /\ ~passes =>
                   /\ rec_fail' = Append(rec_fail, PatternRecord(code, now))
                   /\ rec_succ' = rec_succ
                   /\ st_call'.called /\ st_call'.pattern = code /\ ~st_call'.success
                   /\ UNCHANGED validateVars
                   /\ gm_pc' = "loop"
                   /\ gm_attempt' = gm_attempt + 1]_vars

\* the store file holds the record as the newest of its list
Persisted(file, rec, success) ==
    LET data == load_successful_patterns(file).value
        list == IF success THEN data.successful_patterns ELSE data.failed_patterns
    IN  Len(list) >= 1 /\ list[Len(list)] = rec

\* C14 as stated: every attempt appends exactly one record, a confirmed
\* attempt to successful_patterns and any other to failed_patterns, so a
\* call that made k attempts has appended k records
EveryAttemptRecorded ==
    /\ Len(rec_succ) + Len(rec_fail) = gm_calls
    /\ Len(rec_succ) = gm_nconf

\* C14: an attempt that does not end in the except clause appends exactly
\* one record, to successful_patterns when it is confirmed and to
\* failed_patterns otherwise, and persists it; an attempt that ends in the
\* except clause (the chat-completion call raises, or the candidate has no
\* second line) appends none and leaves the store file as it is
AttemptRecordedUnlessRaised ==
    [][gm_calls' = gm_calls + 1 =>
         LET rec == PatternRecord(gm_last'.code, now)
         IN  CASE gm_last'.outcome = "confirmed" ->
                    /\ rec_succ' = Append(rec_succ, rec)
                    /\ rec_fail' = rec_fail
                    /\ Persisted(store_file', rec, TRUE)
               [] gm_last'.outcome \in {"llm_error", "index_error"} ->
                    /\ rec_succ' = rec_succ
                    /\ rec_fail' = rec_fail
                    /\ store_file' = store_file
               [] OTHER ->
                    /\ rec_fail' = Append(rec_fail, rec)
                    /\ rec_succ' = rec_succ
                    /\ Persisted(store_file', rec, FALSE)]_vars

\* three attempts were made, two of them ended in the except clause, and
\* one record has been appended
RaisedAttemptsUnrecorded ==
    /\ gm_calls = 3
    /\ gm_last.outcome = "llm_error"
    /\ Len(rec_succ) + Len(rec_fail) = 1
    /\ Len(rec_fail) = 1

\* C17 as stated: whenever the 4th or a later attempt fails, for any
\* reason, the corrective guidance is appended to the prompt, so every
\* attempt after a failed 4th is made with it; none of the first 4 is
GuidanceOnAnyFailure ==
    [][gm_calls' = gm_calls + 1 =>
         /\ gm_attempt < 4 => gm_prompt.guidance = 0
         /\ gm_attempt >= 4 => gm_prompt.guidance >= 1
         /\ gm_attempt >= 3 /\ gm_last'.outcome # "confirmed" =>
                gm_prompt'.guidance = gm_prompt.guidance + 1]_vars

\* C17: the corrective guidance is appended exactly when the 4th or a
\* later attempt passes the structural checks and fails the render
\* confirmation; a structural rejection or an exception appends nothing;
\* none of the first 4 attempts is made with the guidance
GuidanceOnUnconfirmed ==
    [][gm_calls' = gm_calls + 1 =>
         /\ gm_attempt < 4 => gm_prompt.guidance = 0
         /\ gm_prompt'.guidance =
               IF gm_attempt >= 3 /\ gm_last'.outcome = "unconfirmed"
               THEN gm_prompt.guidance + 1
               ELSE gm_prompt.guidance
         /\ gm_prompt'.title = gm_prompt.title
         /\ gm_prompt'.bullets = gm_prompt.bullets
         /\ gm_prompt'.examples = gm_prompt.examples]_vars

\* the 4th attempt was unconfirmed and the 5th and 6th were rejected or
\* raised: the guidance has been appended once
GuidanceOnceAfterSix ==
    /\ gm_pc = "loop"
    /\ gm_attempt = 6
    /\ gm_prompt.guidance = 1
    /\ gm_last.outcome \in Rejections \cup {"llm_error", "index_error"}

\* the constraints of the Diagram Source data model
ForestInit(code) ==
    LET first == Split(code, NL)[1]
    IN  /\ Len(first) >= 2
        /\ first[1] = "%%{init:"
        /\ \E i \in 2..Len(first) : first[i] = "{'theme':'forest'}"
BodyLines(code) ==
    LET lines == Split(code, NL) IN [k \in 1..(Len(lines) - 2) |-> lines[k + 2]]
InLabel(line, i) ==
    \E j \in 1..(i - 1) :
       /\ line[j] = "["
       /\ \A k \in (j + 1)..(i - 1) : line[k] # "]"
OneArrowPerLine(line) == Cardinality({i \in 1..Len(line) : line[i] = "-->"}) <= 1
NoQuoteInLabels(line) ==
    \A i \in 1..Len(line) : InLabel(line, i) => line[i] \notin {"\"", "'"}
LetterIds(line) ==
    \A i \in 1..Len(line) :
       \/ InLabel(line, i)
       \/ line[i] \in {" ", "-->", "[", "]"}
       \/ line[i] \in {"A", "B", "C", "D", "E", "F", "G", "H"}
DataModelOk(code) ==
    /\ ForestInit(code)
    /\ GraphSecond(code)
    /\ ArrowsEnough(code)
    /\ \A k \in 1..Len(BodyLines(code)) :
          LET line == BodyLines(code)[k]
          IN  OneArrowPerLine(line) /\ NoQuoteInLabels(line) /\ LetterIds(line)

\* C20 as stated: every returned text meets all constraints of the data
\* model: forest theme in the init directive of the first line, graph TD or
\* LR on the second, node names A to H, at most one arrow on a line, no
\* quote in a label, at least 4 arrows
ReturnedMeetsDataModel == gm_pc = "returned" => DataModelOk(gm_result)

\* C20: every returned text was confirmed by the render test and meets the
\* four constraints the code checks: the first line starts with the init
\* directive prefix, the second holds graph TD or graph LR, there are at
\* least 4 arrows, and no quote follows an opening label bracket
ReturnedMeetsChecks ==
    gm_pc = "returned" =>
       /\ InitFirst(gm_result)
       /\ GraphSecond(gm_result)
       /\ ArrowsEnough(gm_result)
       /\ NoBracketQuote(gm_result)
       /\ vl_result.done /\ vl_result.value

\* a text outside the data model was returned
LooseChartReturned ==
    /\ gm_pc = "returned"
    /\ gm_result = LooseChart
    /\ ~DataModelOk(gm_result)

\* C22: a call appends a successful record only for a text that passed the
\* four structural checks and whose render confirmation returned true; it
\* appends at most one; when it returns, the returned text is the pattern
\* of the successful record appended last, which the store file holds as
\* its newest; a call that raises exhaustion has appended none
SuccessOnlyWhenConfirmed ==
    /\ Len(rec_succ) <= 1
    /\ \A i \in 1..Len(rec_succ) :
          /\ FourChecksPass(rec_succ[i].pattern)
          /\ vl_result.done /\ vl_result.value
          /\ gm_pc = "returned"
    /\ gm_pc = "returned" =>
          /\ Len(rec_succ) = 1
          /\ gm_result = rec_succ[Len(rec_succ)].pattern
          /\ Persisted(store_file, rec_succ[Len(rec_succ)], TRUE)
    /\ gm_pc = "raised" => rec_succ = <<>>

\* two attempts were recorded as failed and the third was confirmed,
\* recorded as successful and returned
SuccessRecordedOnce ==
    /\ gm_pc = "returned"
    /\ gm_calls = 3
    /\ Len(rec_fail) = 2
    /\ rec_succ = <<PatternRecord(GoodChartLR, now)>>
    /\ gm_result = GoodChartLR

(***************************************************************************)
(* The orchestrator: one run of generate_video_presentation, on empty      *)
(* directories or on directories holding the files of an earlier run.      *)
(***************************************************************************)
Topics == {<<"A", "I", " ", "&", " ", "M", "L", "!">>}

InitVideo ==
    /\ vp_pc = "begin"
    /\ topic \in Topics
    /\ output_filename \in {[given |-> FALSE, name |-> <<>>],
                            [given |-> TRUE, name |-> <<"out.mp4">>]}
    /\ slides_data = <<>>
    /\ vp_idx = 0
    /\ mermaid_image_path = 0
    /\ duration = 0
    /\ slide_images = [i \in Slots |-> NoImage]
    /\ video_clips = <<>>
    /\ final_video = NoVideo
    /\ vp_nodiag = {}
    /\ sp_returns = <<>>
    /\ \/ /\ charts = [i \in Slots |-> AbsentPath]
          /\ audio = [i \in Slots |-> AbsentAudio]
       \/ /\ charts = [i \in Slots |-> StaleChart]
          /\ audio = [i \in Slots |-> StaleAudio]
    /\ rn_menu = {}
    /\ rn_pc = "idle"
    /\ rn_code = <<>>
    /\ rn_path = 1
    /\ rn_attempt = 0
    /\ rn_file0 = AbsentPath
    /\ rn_hist = <<>>
    /\ sp_menu = {}
    /\ sp_pc = "idle"
    /\ sp_path = 1
    /\ sp_resp = [exc |-> TRUE, status |-> 0, body |-> NoAudio]
    /\ sp_result = 0
    /\ sp_file0 = AbsentAudio

InitVideoAll ==
    /\ InitVideo
    /\ IdleStore
    /\ IdleValidate
    /\ IdleChart
    /\ IdleEnv
    /\ IdleSlide
    /\ IdleRace

NextVideo ==
    \/ VpBegin /\ UNCHANGED <<slideVars, raceVars>>
    \/ VpContent /\ UNCHANGED <<slideVars, raceVars>>
    \/ VpSlide /\ UNCHANGED <<slideVars, raceVars>>
    \/ ChartStart /\ UNCHANGED otherThanChart
    \/ ChartAttempt /\ UNCHANGED otherThanChart
    \/ ChartExhausted /\ UNCHANGED otherThanChart
    \/ VpChartReturned /\ UNCHANGED <<slideVars, raceVars>>
    \/ VpChartRaised /\ UNCHANGED <<slideVars, raceVars>>
    \/ RenderAttempt /\ UNCHANGED otherThanRender
    \/ RenderExhausted /\ UNCHANGED otherThanRender
    \/ VpRenderReturned /\ UNCHANGED <<slideVars, raceVars>>
    \/ VpRenderRaised /\ UNCHANGED <<slideVars, raceVars>>
    \/ VpNarration /\ UNCHANGED <<slideVars, raceVars>>
    \/ SpeechCall /\ UNCHANGED otherThanSpeech
    \/ VpSpeechReturned /\ UNCHANGED <<slideVars, raceVars>>
    \/ VpSpeechRaised /\ UNCHANGED <<slideVars, raceVars>>
    \/ VpImage /\ UNCHANGED <<slideVars, raceVars>>
    \/ VpClip /\ UNCHANGED <<slideVars, raceVars>>
    \/ VpAssemble /\ UNCHANGED <<slideVars, raceVars>>

SpecVideo == InitVideoAll /\ [][NextVideo]_vars

VideoTypeOK ==
    /\ vp_pc \in {"begin", "content", "slide", "chart", "render", "narration",
                  "speech", "image", "clip", "assemble", "done", "failed"}
    /\ mermaid_image_path \in 0..MaxSlides

\* C1: an exception of generate_mermaid_chart or render_mermaid_to_image
\* never ends the run: the slide goes on to its narration, and its slide
\* image is made with no diagram path and carries no diagram
DiagramFailureContained ==
    [][/\ (vp_pc \in {"chart", "render"} /\ vp_pc' \notin {"chart", "render"}) =>
             vp_pc' = "narration" /\ vp_idx' = vp_idx
       /\ (vp_pc = "image" /\ (\E e \in vp_nodiag : e[1] = vp_idx)) =>
             /\ mermaid_image_path = 0
             /\ slide_images'[vp_idx].exists
             /\ slide_images'[vp_idx].diagram = "none"
             /\ vp_pc' = "clip"]_vars

\* slide 2 lost its diagram to the generator and slide 3 to the renderer,
\* over the chart files of an earlier run, and the run returned its video
CompletedDespiteFailures ==
    /\ vp_pc = "done"
    /\ vp_nodiag = {<<2, "generate">>, <<3, "render">>}
    /\ charts[2] = StaleChart
    /\ slide_images[2].exists /\ slide_images[2].diagram = "none"
    /\ slide_images[3].exists /\ slide_images[3].diagram = "none"
    /\ final_video.exists
    /\ Len(final_video.segments) = 3

\* the positions of the log that are writes of one kind
WritesOf(kind) == {p \in 1..Len(fs_log) : fs_log[p][1] = kind}
WrittenSlots(kind) == {fs_log[p][2] : p \in WritesOf(kind)}

\* a title slide followed by content slides
TitleThenContent(outline) ==
    /\ outline # <<>>
    /\ outline[1].type = "title"
    /\ \A i \in 2..Len(outline) : outline[i].type = "content"

RECURSIVE SumSeq(_)
SumSeq(q) == IF q = <<>> THEN 0 ELSE Head(q) + SumSeq(Tail(q))

\* C3: with a title slide followed by N-1 content slides and no failing
\* call, the run writes slide images 1..N, audio files 1..N and charts 2..N,
\* each once, and a video as long as the N returned durations together
FaultlessRunOutputs ==
    (vp_pc = "done" /\ ~env_fault /\ TitleThenContent(slides_data)) =>
        LET N == Len(slides_data)
        IN  /\ WrittenSlots("slide") = 1..N
            /\ Cardinality(WritesOf("slide")) = N
            /\ WrittenSlots("audio") = 1..N
            /\ Cardinality(WritesOf("audio")) = N
            /\ WrittenSlots("chart") = 2..N
            /\ Cardinality(WritesOf("chart")) = N - 1
            /\ final_video.exists
            /\ Len(sp_returns) = N
            /\ final_video.duration = SumSeq(sp_returns)

\* a faultless run over one title and two content slides
FaultlessThreeSlides ==
    /\ vp_pc = "done"
    /\ ~env_fault
    /\ TitleThenContent(slides_data)
    /\ Len(slides_data) = 3
    /\ Len(fs_log) = 8
    /\ final_video.duration = 1200 + 7300 + 1200

\* the place of a write in the order of the run
WriteRank(w) ==
    3 * w[2] + (IF w[1] = "chart" THEN 0 ELSE IF w[1] = "audio" THEN 1 ELSE 2)

\* C4: the writes are made slide by slide in outline order, chart then
\* audio then slide image, and the clips handed to the concatenation are
\* one per slide, clip i made of the image and the audio of slide i
SlideOrderKept ==
    /\ \A p, q \in 1..Len(fs_log) : p < q => WriteRank(fs_log[p]) < WriteRank(fs_log[q])
    /\ Len(video_clips) <= Len(slides_data)
    /\ \A i \in 1..Len(video_clips) :
          /\ video_clips[i].image = i
          /\ video_clips[i].sound = i
          /\ video_clips[i].picture = slide_images[i]
          /\ video_clips[i].picture.type = slides_data[i].type
          /\ video_clips[i].track = audio[i].body
    /\ vp_pc \in {"assemble", "done"} => Len(video_clips) = Len(slides_data)
    /\ vp_pc = "done" => final_video.segments = video_clips

\* a finished run over three slides that wrote both charts
ThreeSegmentsInOrder ==
    /\ vp_pc = "done"
    /\ Len(final_video.segments) = 3
    /\ fs_log = <<<<"audio", 1>>, <<"slide", 1>>,
                  <<"chart", 2>>, <<"audio", 2>>, <<"slide", 2>>,
                  <<"chart", 3>>, <<"audio", 3>>, <<"slide", 3>>>>

\* the speech call of slide i returned without writing the audio file: its
\* response had a status other than 200
NonOkSpeech(i) == i <= Len(sp_returns) /\ i \notin WrittenSlots("audio")

\* C15 as stated: after a non-200 speech response for a slide, whatever
\* files the audio directory holds, the run fails at the step that reads
\* that slide's audio file and no final video is written
NonOkSpeechFailsRun ==
    \A i \in Slots :
       NonOkSpeech(i) =>
          /\ vp_pc \in {"image", "clip", "failed"}
          /\ vp_idx = i
          /\ Len(video_clips) = i - 1
          /\ ~final_video.exists

\* C15: after a non-200 speech response for a slide the call has returned
\* 5.0 and the file at the slide's audio path is as the run found it; when
\* no decodable file is there the run fails at the step that reads it and
\* no final video is written; when a decodable file of an earlier run is
\* there the slide's clip is made of that file and lasts 5.0 seconds
NonOkSpeechReadsOldAudio ==
    \A i \in Slots :
       NonOkSpeech(i) =>
          /\ sp_returns[i] = FallbackDuration
          /\ audio[i] \in {AbsentAudio, StaleAudio}
          /\ IF audio[i].exists /\ audio[i].body.audio
             THEN i <= Len(video_clips) =>
                     /\ video_clips[i].track = audio[i].body
                     /\ video_clips[i].duration = FallbackDuration
             ELSE /\ vp_pc \in {"image", "clip", "failed"}
                  /\ vp_idx = i
                  /\ Len(video_clips) = i - 1
                  /\ ~final_video.exists

\* the speech call of the second slide got a non-200 response, no audio
\* file was there, and the run failed at that slide's clip
FailedAtAudioRead ==
    /\ vp_pc = "failed"
    /\ vp_idx = 2
    /\ NonOkSpeech(2)
    /\ ~audio[2].exists
    /\ slide_images[2].exists
    /\ Len(video_clips) = 1

\* C16 as stated: a rendering-exhausted error raised by
\* render_mermaid_to_image is not caught and aborts the run
RenderFailureAborts ==
    [][vp_pc = "render" /\ rn_pc = "raised" => vp_pc' = "failed"]_vars

\* C16: a rendering-exhausted error raised by render_mermaid_to_image is
\* caught by the guard of the diagram step: the chart path is reset, the
\* slide goes on to its narration and nothing of the run is lost
RenderFailureSkipsDiagram ==
    [][vp_pc = "render" /\ rn_pc = "raised" =>
         /\ vp_pc' = "narration"
         /\ mermaid_image_path' = 0
         /\ vp_nodiag' = vp_nodiag \cup {<<vp_idx, "render">>}
         /\ UNCHANGED <<vp_idx, slides_data, slide_images, video_clips,
                        final_video, sp_returns>>]_vars

\* the renderer was exhausted on the second slide and the run wrote the
\* video of all three slides, the second without a diagram
DoneAfterRenderExhausted ==
    /\ vp_pc = "done"
    /\ final_video.exists
    /\ Len(final_video.segments) = 3
    /\ <<2, "render">> \in vp_nodiag
    /\ slide_images[2].diagram = "none"
    /\ slide_images[3].diagram # "none"

(***************************************************************************)
(* The word wrap of create_slide_image on its own: one bullet of up to     *)
(* MaxWords words.                                                         *)
(***************************************************************************)
Bullets == UNION {[1..n -> WordWidths] : n \in 0..MaxWords}

InitWrap ==
    /\ wr_pc = "ready"
    /\ wr_words \in Bullets
    /\ wr_lines = <<>>
    /\ cs_pc = "idle"
    /\ cs_slide = TitleSlide
    /\ cs_path = 0
    /\ cs_size = NoSize
    /\ cs_image = NoImage
    /\ cs_pasted = NoSize

InitWrapAll ==
    /\ InitWrap
    /\ IdleStore
    /\ IdleValidate
    /\ IdleRender
    /\ IdleSpeech
    /\ IdleChart
    /\ IdleEnv
    /\ IdleVideo
    /\ IdleRace

NextWrap == WrapBullet /\ UNCHANGED otherThanSlide

SpecWrap == InitWrapAll /\ [][NextWrap]_vars

\* C12: a bullet whose full width exceeds 800px is wrapped into more than
\* one line, and no line of any bullet is wider than 800px
WrapWithinBound ==
    wr_pc = "done" =>
       /\ LineWidth(wr_words) > 800 => Len(wr_lines) > 1
       /\ \A i \in 1..Len(wr_lines) : LineWidth(wr_lines[i]) <= 800

(***************************************************************************)
(* The derivation of the output filename on its own: the first step of     *)
(* generate_video_presentation on short and on long topics.                *)
(***************************************************************************)
TopicChars == {"A", "7", " ", "-", "_", "&"}

\* a topic of n characters with the character c at every seventh place
LongTopic(n, c) == [i \in 1..n |-> IF i % 7 = 0 THEN c ELSE "x"]

NameTopics ==
    UNION {[1..n -> TopicChars] : n \in 0..MaxTopic}
    \cup {LongTopic(n, c) : n \in (TopicLimit - 2)..(TopicLimit + 3), c \in {" ", "&", "-"}}

InitName ==
    /\ vp_pc = "begin"
    /\ topic \in NameTopics
    /\ output_filename \in {[given |-> FALSE, name |-> <<>>],
                            [given |-> TRUE, name |-> <<"out.mp4">>],
                            [given |-> TRUE, name |-> <<"my", " ", "talk", "&", ".mp4">>]}
    /\ slides_data = <<>>
    /\ vp_idx = 0
    /\ mermaid_image_path = 0
    /\ duration = 0
    /\ slide_images = [i \in Slots |-> NoImage]
    /\ video_clips = <<>>
    /\ final_video = NoVideo
    /\ vp_nodiag = {}
    /\ sp_returns = <<>>

InitNameAll ==
    /\ InitName
    /\ IdleStore
    /\ IdleValidate
    /\ IdleRender
    /\ IdleSpeech
    /\ IdleChart
    /\ IdleEnv
    /\ IdleSlide
    /\ IdleRace

NextName == VpBegin /\ UNCHANGED <<slideVars, raceVars>>

SpecName == InitNameAll /\ [][NextName]_vars

\* the places of the topic's characters that the derivation keeps
KeptPlaces(t) ==
    {i \in 1..Len(t) : t[i] \in AlnumChars \cup {" ", "-", "_"}}

\* the k-th kept place
KeptPlace(t, k) ==
    CHOOSE i \in KeptPlaces(t) : Cardinality({j \in KeptPlaces(t) : j < i}) = k - 1

\* the base the claim describes: the kept characters in order, spaces as
\* underscores, the first 50 of them
ClaimedBase(t) ==
    LET n == IF Cardinality(KeptPlaces(t)) < 50 THEN Cardinality(KeptPlaces(t)) ELSE 50
    IN  [k \in 1..n |-> IF t[KeptPlace(t, k)] = " " THEN "_" ELSE t[KeptPlace(t, k)]]

\* C13: without a supplied output_filename the name is the topic's kept
\* characters (alphanumerics, spaces, hyphens, underscores) with spaces as
\* underscores, cut to 50 characters, followed by "_presentation.mp4"; the
\* base has at most 50 characters, all alphanumerics, hyphens or
\* underscores; a supplied output_filename is used unchanged
FilenameDerived ==
    [][vp_pc = "begin" =>
         IF output_filename.given
         THEN output_filename'.name = output_filename.name
         ELSE LET name == output_filename'.name
                  base == SubSeq(name, 1, Len(name) - 1)
              IN  /\ Len(name) >= 1
                  /\ name[Len(name)] = "_presentation.mp4"
                  /\ base = ClaimedBase(topic)
                  /\ Len(base) <= 50
                  /\ \A i \in 1..Len(base) : base[i] \in AlnumChars \cup {"-", "_"}]_vars

\* a topic of more than 50 characters with spaces and one with other
\* characters have had their names derived
LongTopicNamed ==
    /\ vp_pc = "content"
    /\ Len(topic) > 50
    /\ \E i \in 1..Len(topic) : topic[i] = " "
    /\ Len(output_filename.name) = 51
    /\ \E i \in 1..50 : output_filename.name[i] = "_"

(***************************************************************************)
(* create_slide_image on its own: one call with a slide of either type,    *)
(* with or without a chart path, the path absent, an image or no image.    *)
(***************************************************************************)
NoImageFile == FileOf([data |-> "old", size |-> 500, image |-> FALSE])

InitCompose ==
    /\ cs_pc = "ready"
    /\ cs_slide \in {TitleSlide, ContentSlide(2)}
    /\ cs_path \in {0, 1}
    /\ \E file \in {AbsentPath, NoImageFile, StaleChart} :
          /\ charts = [i \in Slots |-> IF i = 1 THEN file ELSE AbsentPath]
          /\ IF file = StaleChart
             THEN cs_size \in ImageSides \X ImageSides
             ELSE cs_size = NoSize
    /\ cs_image = NoImage
    /\ cs_pasted = NoSize
    /\ wr_pc = "idle"
    /\ wr_words = <<>>
    /\ wr_lines = <<>>
    /\ rn_menu = {}
    /\ rn_pc = "idle"
    /\ rn_code = <<>>
    /\ rn_path = 1
    /\ rn_attempt = 0
    /\ rn_file0 = AbsentPath
    /\ rn_hist = <<>>

InitComposeAll ==
    /\ InitCompose
    /\ IdleStore
    /\ IdleValidate
    /\ IdleSpeech
    /\ IdleChart
    /\ IdleEnv
    /\ IdleVideo
    /\ IdleRace

NextCompose == ComposeSlide /\ UNCHANGED otherThanSlide

SpecCompose == InitComposeAll /\ [][NextCompose]_vars

\* C18: a diagram image wider than 800 or higher than 600 is pasted with
\* width at most 800 and height at most 600; an image within 800x600 is
\* pasted at its original size
PastedWithinBox ==
    cs_pc = "done" /\ cs_image.diagram # "none" =>
       /\ cs_size[1] > 800 \/ cs_size[2] > 600 =>
              cs_pasted[1] <= 800 /\ cs_pasted[2] <= 600
       /\ cs_size[1] <= 800 /\ cs_size[2] <= 600 => cs_pasted = cs_size

\* C19: the image saved for a slide of type title carries no diagram,
\* whatever chart path the call is given and whatever is at that path
NoDiagramOnTitle ==
    cs_pc = "done" /\ cs_slide.type = "title" =>
       /\ cs_image.diagram = "none"
       /\ cs_pasted = NoSize

(***************************************************************************)
(* The store shared by pipeline instances: each call of                    *)
(* save_successful_pattern is a load, the opening of the file for writing  *)
(* (which empties it) and the dump; the steps of two instances interleave. *)
(***************************************************************************)
WriterNames == <<"first", "second">>
CallNames == <<"one", "two", "three">>

\* the text instance w records in its k-th call
RacePattern(w, k) == <<"chart", WriterNames[w], CallNames[k]>>

InitRace ==
    /\ rc_writers \in {{1}, {1, 2}}
    /\ rc_pc = [w \in Writers |-> "idle"]
    /\ rc_arg = [w \in Writers |-> NoArg]
    /\ rc_data = [w \in Writers |-> AbsentFile]
    /\ rc_calls = [w \in Writers |-> 0]
    /\ rc_done = {}
    /\ rc_overlap = FALSE
    /\ store_file \in {AbsentFile, FilledStore(1, 1)}
    /\ now = 0
    /\ st_prev = store_file
    /\ st_call = NoCall
    /\ rec_succ = <<>>
    /\ rec_fail = <<>>

\* lines 34-47 on the content read from file: load, append, truncate
RaceLoadFrom(w, file) ==
    /\ w \in rc_writers
    /\ rc_pc[w] = "idle"
    /\ rc_calls[w] < MaxRaceCalls
    /\ \E success \in BOOLEAN :
          LET p == RacePattern(w, rc_calls[w] + 1)
          IN  /\ rc_arg' = [rc_arg EXCEPT ![w] = [pattern |-> p, success |-> success]]
              /\ rc_data' = [rc_data EXCEPT ![w] =
                                save_successful_pattern(file, p, success, now).file]
    /\ rc_pc' = [rc_pc EXCEPT ![w] = "loaded"]
    /\ rc_overlap' = (rc_overlap \/ \E v \in rc_writers \ {w} : rc_pc[v] # "idle")
    /\ UNCHANGED <<rc_writers, rc_calls, rc_done>>
    /\ UNCHANGED storeVars

\* the call building its data without reading the file
RaceLoadNoRead(w) == RaceLoadFrom(w, AbsentFile)

\* line 34: data = load_successful_patterns(), then the append of 36-47
RaceLoad(w) == RaceLoadFrom(w, store_file)

\* line 49: open(LEARNING_FILE, 'wb') empties the file
RaceOpen(w) ==
    /\ w \in rc_writers
    /\ rc_pc[w] = "loaded"
    /\ store_file' = EmptyFile
    /\ rc_pc' = [rc_pc EXCEPT ![w] = "open"]
    /\ UNCHANGED <<rc_writers, rc_arg, rc_data, rc_calls, rc_done, rc_overlap>>
    /\ UNCHANGED <<now, st_prev, st_call, rec_succ, rec_fail>>

\* line 50 and the end of the with block: the dump and the close; while
\* another instance has the file open for writing the bytes of the two can
\* mix into a file pickle cannot load
RaceDump(w) ==
    /\ w \in rc_writers
    /\ rc_pc[w] = "open"
    /\ \/ store_file' = rc_data[w]
       \/ /\ \E v \in rc_writers \ {w} : rc_pc[v] = "open"
          /\ store_file' = CorruptFile
    /\ rc_pc' = [rc_pc EXCEPT ![w] = "idle"]
    /\ rc_calls' = [rc_calls EXCEPT ![w] = @ + 1]
    /\ rc_done' = rc_done \cup {rc_arg[w]}
    /\ rc_arg' = [rc_arg EXCEPT ![w] = NoArg]
    /\ rc_data' = [rc_data EXCEPT ![w] = AbsentFile]
    /\ UNCHANGED <<rc_writers, rc_overlap>>
    /\ UNCHANGED <<now, st_prev, st_call, rec_succ, rec_fail>>

otherThanRace ==
    <<validateVars, renderVars, speechVars, chartVars, envVars, videoVars, slideVars>>

InitRaceAll ==
    /\ InitRace
    /\ IdleValidate
    /\ IdleRender
    /\ IdleSpeech
    /\ IdleChart
    /\ IdleEnv
    /\ IdleVideo
    /\ IdleSlide

NextRace ==
    \/ \E w \in Writers : RaceLoad(w) /\ UNCHANGED otherThanRace
    \/ \E w \in Writers : RaceOpen(w) /\ UNCHANGED otherThanRace
    \/ \E w \in Writers : RaceDump(w) /\ UNCHANGED otherThanRace

SpecRace == InitRaceAll /\ [][NextRace]_vars

\* the patterns the store file holds in the list of the flag
StoredPatterns(file, success) ==
    LET data == load_successful_patterns(file).value
        list == IF success THEN data.successful_patterns ELSE data.failed_patterns
    IN  {list[i].pattern : i \in 1..Len(list)}

\* no call is in progress, fewer records than either cap have been made,
\* and a pattern whose call completed is not in the store
LostUpdate ==
    /\ \A w \in Writers : rc_pc[w] = "idle"
    /\ Cardinality(rc_done) + 1 < FailCap
    /\ Cardinality(rc_done) + 1 < SuccessCap
    /\ \E r \in rc_done : r.pattern \notin StoredPatterns(store_file, r.success)

\* C21: an update is lost only when two instances share the store file
\* and a call of one started while a call of the other was between its
\* load and its write; a single writer loses none, and neither do two
\* whose calls do not interleave
LostUpdateOnlyInterleaved ==
    LostUpdate => rc_writers = {1, 2} /\ rc_overlap

\* last writer wins: both instances completed a call, the file loads, it
\* holds the pattern of the second instance and not that of the first
LastWriterWon ==
    /\ LostUpdate
    /\ store_file.kind = "pickle"
    /\ rc_calls = [w \in Writers |-> 1]
    /\ \E r \in rc_done :
          /\ r.pattern = RacePattern(2, 1)
          /\ r.pattern \in StoredPatterns(store_file, r.success)
    /\ \E r \in rc_done :
          /\ r.pattern = RacePattern(1, 1)
          /\ r.pattern \notin StoredPatterns(store_file, r.success)

====
